---- MODULE Spec2Model ----
(***************************************************************************)
(* A model of the two recurring components of the FastAPI example          *)
(* repository: the in-memory rate-limiting middleware                      *)
(* (Youtube Tuts/12. Middleware Advanced(Rate Limit)/main.py) and the JWT  *)
(* token service (auth_utils.py, jwt_practice.py and the login / refresh / *)
(* protected endpoints of Youtube Tuts/11. JWT Access Token Creation).     *)
(* Beside them: the retry client of Two_Server_Connect, the async          *)
(* registration endpoint of Course_by_ProgrammingKnowledge/5 and the       *)
(* patient store of post_request.py and put_and_delete.py.                 *)
(*                                                                         *)
(* Time.  time.time() and datetime.now() have sub-second resolution, the   *)
(* clock `now` therefore counts ticks, Resolution ticks to the second.     *)
(***************************************************************************)
EXTENDS Integers, Sequences, FiniteSets, TLC

VARIABLES
    now,                 \* the wall clock, in ticks
    rate_limit_records,  \* RateLimitMiddleware.rate_limit_records: client -> timestamps
    requests,            \* per client, the requests the middleware has seen, in arrival order
    created,             \* the create_access_token call made, with the token it returned
    call,                \* the latest decode_access_token / protected_route call and its result
    users,               \* the rows of the users table, in insertion order
    issued,              \* the tokens /login and /refresh have returned so far
    refreshed,           \* token -> number of times /refresh has accepted it
    last,                \* the latest endpoint call at the current clock value
    hashed,              \* the hash_password call made, with its result
    verified,            \* the verify_password call made on that result
    accounts,            \* the users table of one of the login applications
    answers,             \* the answers that application gave to failed logins
    sender,              \* sender.py: where the retry loop stands and what it did
    course_users,        \* the users table of the async registration application
    registering,         \* the register requests of that application, in arrival order
    basic_view,          \* the contents of basic_view.json
    workers,             \* the patient handlers running on worker threads
    returned             \* the patient handler calls that have returned, in order

\* the state of the rate limiter and of the token functions
rl_vars == <<rate_limit_records, requests>>
tok_vars == <<created, call>>
app_vars == <<users, issued, refreshed, last>>
auth_vars == <<hashed, verified, accounts, answers>>
sender_vars == <<sender>>
reg_vars == <<course_users, registering>>
store_vars == <<basic_view, workers, returned>>

vars == <<now, rate_limit_records, requests, created, call,
          users, issued, refreshed, last, hashed, verified, accounts, answers,
          sender, course_users, registering, basic_view, workers, returned>>

----------------------------------------------------------------------------
(* Bounds of the model *)

\* clock ticks per second
Resolution == 2
\* the rate limiter's clock runs from 0 to MaxTime ticks
MaxTime == 3
\* number of requests sent to the middleware
MaxRequests == 4
\* explicit expires_delta values run from -1 to MaxDelta ticks
MaxDelta == 2
\* rows the users table can hold
MaxUsers == 1
\* distinct tokens the endpoints issue
MaxTokens == 3
\* times /refresh accepts one token
MaxUses == 2

----------------------------------------------------------------------------
(* Rate limiter: Youtube Tuts/12. Middleware Advanced(Rate Limit)/main.py   *)

\* request.client.host values
Clients == {"A", "B"}
\* the routes of the wrapped application
Paths == {"/", "/test"}

\* window_time = 1  (seconds)
window_time == 1
\* max_requests = 2
max_requests == 2

\* the window in clock ticks
WindowTicks == window_time * Resolution

\* client_ip = request.client.host
ClientKey_shared(client) == "A"
ClientKey(client) == client

\* self.rate_limit_records[client_ip] after the `not in` test has created
\* a missing key with the empty list
Lookup_not_in_flight(records, client_ip) ==
    IF client_ip \in DOMAIN records
    THEN SelectSeq(records[client_ip],
                   LAMBDA t : ~\E i \in 1..Len(requests[client_ip]) :
                                 /\ requests[client_ip][i].state = "in_handler"
                                 /\ requests[client_ip][i].time = t)
    ELSE <<>>
Lookup(records, client_ip) ==
    IF client_ip \in DOMAIN records THEN records[client_ip] ELSE <<>>

\* [t for t in request_times if t > current_time - window_time]
Cleanup_keep_all(request_times, current_time) == request_times
Cleanup_inclusive(request_times, current_time) ==
    SelectSeq(request_times, LAMBDA t : t >= current_time - WindowTicks)
Cleanup(request_times, current_time) ==
    SelectSeq(request_times, LAMBDA t : t > current_time - WindowTicks)

\* request_times after cleanup and request_times.append(current_time)
Updated(records, client_ip, current_time) ==
    Append(Cleanup(Lookup(records, client_ip), current_time), current_time)

\* len(request_times) > max_requests
RateLimitExceeded_lenient(request_times) == Len(request_times) > max_requests + 1
RateLimitExceeded_off_by_one(request_times) == Len(request_times) >= max_requests
RateLimitExceeded(request_times) == Len(request_times) > max_requests

\* self.rate_limit_records[client_ip] = request_times
Store_single_key(records, client_ip, request_times) ==
    [k \in {client_ip} |-> request_times]
Store_on_accept(records, client_ip, request_times) ==
    [k \in DOMAIN records \cup {client_ip} |->
        IF k = client_ip /\ ~RateLimitExceeded(request_times) THEN request_times
        ELSE IF k \in DOMAIN records THEN records[k] ELSE <<>>]
Store(records, client_ip, request_times) ==
    [k \in DOMAIN records \cup {client_ip} |->
        IF k = client_ip THEN request_times ELSE records[k]]

\* the Response built on rejection
TooManyRequests ==
    [status_code |-> 429,
     content |-> "{\"error\": \"Rate limit exceeded. Max 2 requests per second allowed.\"}"]

\* no response produced yet
NoResponse == [status_code |-> 0, content |-> ""]

\* read_root and read_test, the handlers behind call_next
Handler(path) ==
    IF path = "/" THEN [status_code |-> 200, content |-> "{\"message\": \"Hello, World!\"}"]
    ELSE [status_code |-> 200, content |-> "{\"message\": \"This is a test endpoint.\"}"]

\* The history entry of a request whose dispatch has run up to its return
\* or to its `await call_next(request)`.
\*   len      : len(request_times) as tested by dispatch
\*   calls    : number of times call_next was invoked for the request
\*   state    : "rejected" (429 returned), "in_handler" (suspended in
\*              call_next), "returned" (the handler's response returned)
Outcome_no_return(path, current_time, request_times) ==
    [path |-> path, time |-> current_time,
     len |-> Len(request_times), calls |-> 1, state |-> "in_handler",
     response |-> NoResponse]
Outcome(path, current_time, request_times) ==
    IF RateLimitExceeded(request_times)
    THEN [path |-> path, time |-> current_time,
          len |-> Len(request_times), calls |-> 0, state |-> "rejected",
          response |-> TooManyRequests]
    ELSE [path |-> path, time |-> current_time,
          len |-> Len(request_times), calls |-> 1, state |-> "in_handler",
          response |-> NoResponse]

\* the number of requests sent so far
Sent == Len(requests["A"]) + Len(requests["B"])

\* RateLimitMiddleware.dispatch up to its first suspension point: lookup,
\* cleanup, append, store, and the limit test.  No await occurs before
\* call_next, so this part runs as one step.
dispatch(client, path) ==
    /\ Sent < MaxRequests
    /\ LET client_ip == ClientKey(client)
           current_time == now
           request_times == Updated(rate_limit_records, client_ip, current_time)
       IN /\ rate_limit_records' = Store(rate_limit_records, client_ip, request_times)
          /\ requests' = [requests EXCEPT ![client] =
                              Append(@, Outcome(path, current_time, request_times))]
    /\ UNCHANGED <<now, tok_vars, app_vars, auth_vars, sender_vars, reg_vars, store_vars>>

\* response = await call_next(request); return response
call_next_return(client, i) ==
    /\ requests[client][i].state = "in_handler"
    /\ requests' = [requests EXCEPT
                       ![client][i].state = "returned",
                       ![client][i].response = Handler(requests[client][i].path)]
    /\ UNCHANGED <<now, rate_limit_records, tok_vars, app_vars, auth_vars, sender_vars, reg_vars, store_vars>>

\* time passes
Tick ==
    /\ now < MaxTime
    /\ now' = now + 1
    /\ UNCHANGED <<rl_vars, tok_vars, app_vars, auth_vars, sender_vars, reg_vars, store_vars>>

\* no token function has been called
NoToken == [issued |-> FALSE]
NoCall == [made |-> FALSE]
TokenIdle == created = NoToken /\ call = NoCall

\* the application has just started: an empty users table, nothing issued
NoRequest == [endpoint |-> "none"]
AppIdle ==
    /\ users = <<>>
    /\ issued = {}
    /\ refreshed = <<>>
    /\ last = NoRequest

\* no password function has been called, no login application is running
NoApp == [app |-> "none", rows |-> <<>>]
AuthIdle ==
    /\ hashed = NoCall
    /\ verified = NoCall
    /\ accounts = NoApp
    /\ answers = {}

\* sender.py has not posted yet: `attempt` is the first value of range(3),
\* `r` is unbound, nothing was raised
Unbound == [bound |-> FALSE]
NoException == "None"
SenderIdle ==
    sender = [pc |-> "post", attempt |-> 0, r |-> Unbound, exc |-> NoException,
              posts |-> <<>>, trace |-> <<>>, slept |-> <<>>, printed |-> <<>>]

\* the async registration application has not been imported: no table yet
NoTable == [created |-> FALSE, unique |-> FALSE, rows |-> <<>>]
RegisterIdle ==
    /\ course_users = NoTable
    /\ registering = <<>>

\* basic_view.json holds an empty JSON object, every worker thread is free
Workers == {"w1", "w2"}
EmptyObject == [id \in {} |-> Unbound]
\* the file: a JSON document, no bytes at all, or bytes json.load rejects.
\* The patients of the model take equally many bytes each, so the length of
\* a document is counted in patients, the braces of the object counting one
JsonFile(data) ==
    [kind |-> "json", data |-> data, length |-> 1 + Cardinality(DOMAIN data)]
EmptyFile == [kind |-> "empty", data |-> EmptyObject, length |-> 0]
GarbledFile(length) == [kind |-> "garbled", data |-> EmptyObject, length |-> length]
FreeWorker == [pc |-> "free"]
StoreIdle ==
    /\ basic_view = JsonFile(EmptyObject)
    /\ workers = [w \in Workers |-> FreeWorker]
    /\ returned = <<>>

\* RateLimitMiddleware.__init__
RateLimiterIdle ==
    /\ rate_limit_records = <<>>
    /\ requests = [c \in Clients |-> <<>>]

Init ==
    /\ now = 0
    /\ RateLimiterIdle
    /\ TokenIdle
    /\ AppIdle
    /\ AuthIdle
    /\ SenderIdle
    /\ RegisterIdle
    /\ StoreIdle

Next ==
    \/ \E client \in Clients, path \in Paths : dispatch(client, path)
    \/ \E client \in Clients : \E i \in 1..Len(requests[client]) :
          call_next_return(client, i)
    \/ Tick

Spec == Init /\ [][Next]_vars

----------------------------------------------------------------------------
(* Token service:                                                          *)
(*   Course_by_ProgrammingKnowledge/11. JWT Access Token Creation/auth_utils.py *)
(*   Practices/jwt_practice.py                                             *)
(* jwt.encode / jwt.decode are python-jose's; they are modelled by what    *)
(* they do to a token: the header, the claims with exp converted to whole  *)
(* seconds, an HS256 digest over both, and the base64url text of that      *)
(* digest.                                                                 *)

\* SECRET_KEY, ALGORITHM, ACCESS_TOKEN_EXPIRE_MINUTES of auth_utils.py
SECRET_KEY == "ThisIsASecret"
ALGORITHM == "HS256"
ACCESS_TOKEN_EXPIRE_MINUTES == 30

\* the key jwt_practice.py signs with
PRACTICE_KEY == "secretkey"

\* timedelta(minutes=m) in clock ticks
Minutes(m) == m * 60 * Resolution

\* timegm(d.utctimetuple()): a datetime as whole seconds, the fraction dropped
timegm(t) == t \div Resolution

\* subjects and other claim values; "7" stands for the JSON number 7
StringValues == {"isfar", "alice", "admin"}
NumberValues == {"7"}

\* to_encode.update({"exp": expire})
UpdateExp_keep(to_encode, expire) ==
    [k \in DOMAIN to_encode \cup {"exp"} |->
        IF k \in DOMAIN to_encode THEN to_encode[k] ELSE expire]
UpdateExp(to_encode, expire) ==
    [k \in DOMAIN to_encode \cup {"exp"} |->
        IF k = "exp" THEN expire ELSE to_encode[k]]

\* the JOSE header jwt.encode writes
Header(alg) == [alg |-> alg, typ |-> "JWT"]

\* index of a value in the digest
Code(v) ==
    CASE v = "isfar" -> 1 [] v = "alice" -> 2 [] v = "admin" -> 3 [] v = "7" -> 4
      [] v = SECRET_KEY -> 1 [] v = PRACTICE_KEY -> 2
      [] v = ALGORITHM -> 5 [] v = "none" -> 6 [] v = "JWT" -> 7
      [] OTHER -> 0
Field(claims, k) == IF k \in DOMAIN claims THEN Code(claims[k]) ELSE 0

\* HMAC-SHA256(key, header.payload), kept to 5 bytes (like the 32 of the real
\* digest, 5 = 2 mod 3, so the base64url text ends in the same group of 3
\* characters).  The bytes pack key, header and claims one-to-one: distinct
\* inputs have distinct digests.
HS256(key, header, claims) ==
    LET e == IF "exp" \in DOMAIN claims THEN claims.exp + 65536 ELSE 0
    IN << Code(key) * 64 + Field(claims, "sub") * 8 + Field(claims, "role"),
          (e \div 65536) % 256, (e \div 256) % 256, e % 256,
          Field(header, "alg") * 16 + Field(header, "typ") >>

\* base64url text of 5 bytes: 7 characters of 6 bits, the last one carrying
\* 4 bits of the digest and 2 unused bits
base64url_encode(b) ==
    LET g == b[1] * 65536 + b[2] * 256 + b[3]
        h == (b[4] * 256 + b[5]) * 4
    IN << g \div 262144, (g \div 4096) % 64, (g \div 64) % 64, g % 64,
          h \div 4096, (h \div 64) % 64, h % 64 >>

\* base64.urlsafe_b64decode: the bytes of 7 characters; the 2 unused bits of
\* the last character are dropped
base64url_decode(c) ==
    LET g == c[1] * 262144 + c[2] * 4096 + c[3] * 64 + c[4]
        h == (c[5] * 4096 + c[6] * 64 + c[7]) \div 4
    IN << g \div 65536, (g \div 256) % 256, g % 256, h \div 256, h % 256 >>

\* jwt.encode(claims, key, algorithm): a datetime exp becomes whole seconds
jwt_encode(claims, key, algorithm) ==
    LET payload == [k \in DOMAIN claims |->
                       IF k = "exp" THEN timegm(claims[k]) ELSE claims[k]]
        header == Header(algorithm)
    IN [segments |-> 3, header |-> header, payload |-> payload,
        signature |-> base64url_encode(HS256(key, header, payload))]

\* Python dictionaries are objects: a heap maps references to mappings, and
\* the caller's argument is the reference "data".
\* ref.copy(): a new object with the items of ref
dict_alias(heap, ref) == [ref |-> ref, heap |-> heap]
dict_copy(heap, ref) ==
    [ref |-> "to_encode",
     heap |-> [r \in DOMAIN heap \cup {"to_encode"} |->
                  IF r = "to_encode" THEN heap[ref] ELSE heap[r]]]

\* ref.update({"exp": expire}): the object ref refers to is changed in place
dict_update_exp(heap, ref, expire) ==
    [heap EXCEPT ![ref] = UpdateExp(@, expire)]

\* the body of create_access_token(data, expires_delta) run at time t with
\* the given key; expires_delta is <<>> for None and <<d>> for a timedelta
\* of d ticks.  The result is the token returned and the caller's mapping
\* as the call leaves it.
create_token_call(data, expires_delta, t, default, key, algorithm) ==
    LET to_encode == dict_copy([data |-> data], "data")
        expire == t + (IF expires_delta = <<>> THEN default ELSE expires_delta[1])
        heap == dict_update_exp(to_encode.heap, to_encode.ref, expire)
    IN [token |-> jwt_encode(heap[to_encode.ref], key, algorithm),
        data |-> heap["data"]]

\* create_access_token(data, expires_delta) of auth_utils.py called at time t
create_access_token_call(data, expires_delta, t) ==
    create_token_call(data, expires_delta, t,
                      Minutes(ACCESS_TOKEN_EXPIRE_MINUTES), SECRET_KEY, ALGORITHM)

\* the token create_access_token returns
create_access_token_no_sub(data, expires_delta, t) ==
    create_access_token_call([k \in DOMAIN data \ {"sub"} |-> data[k]],
                             expires_delta, t).token
create_access_token_falsy(data, expires_delta, t) ==
    jwt_encode(UpdateExp(data, t + (IF expires_delta = <<>> \/ expires_delta = <<0>>
                                    THEN Minutes(ACCESS_TOKEN_EXPIRE_MINUTES)
                                    ELSE expires_delta[1])),
               SECRET_KEY, ALGORITHM)
create_access_token_key(data, expires_delta, t) ==
    jwt_encode(UpdateExp(data, t + (IF expires_delta = <<>>
                                    THEN Minutes(ACCESS_TOKEN_EXPIRE_MINUTES)
                                    ELSE expires_delta[1])),
               PRACTICE_KEY, ALGORITHM)
create_access_token(data, expires_delta, t) ==
    create_access_token_call(data, expires_delta, t).token

\* results of a call
Returns(payload) == [kind |-> "payload", payload |-> payload]
Raises(exc) == [kind |-> "raise", exc |-> exc]
None == [kind |-> "None"]

\* the exception classes `except JWTError` catches: JWTError and its
\* subclasses
JWTErrors_only_expired == {"ExpiredSignatureError"}
JWTErrors == {"JWTError", "ExpiredSignatureError", "JWTClaimsError"}

\* exp < now: the expiry test of jwt.decode, both sides in whole seconds
Expired_at_exp(exp, t) == exp <= timegm(t)
Expired_leeway(exp, t) == exp < timegm(t) - 1
Expired(exp, t) == exp < timegm(t)

\* jwt.decode(token, key, algorithms) called at time t
jwt_decode_unverified(token, key, algorithms, t) ==
    IF token.segments < 3 THEN Raises("JWTError")
    ELSE IF "exp" \in DOMAIN token.payload /\ Expired(token.payload.exp, t)
         THEN Raises("ExpiredSignatureError")
    ELSE Returns(token.payload)
jwt_decode(token, key, algorithms, t) ==
    IF token.segments < 3 THEN Raises("JWTError")            \* Not enough segments
    ELSE IF "alg" \notin DOMAIN token.header THEN Raises("JWTError")
    ELSE IF token.header.alg \notin algorithms THEN Raises("JWTError")
    ELSE IF base64url_decode(token.signature)
              # HS256(key, token.header, token.payload)
         THEN Raises("JWTError")                             \* Signature verification failed
    ELSE IF "exp" \in DOMAIN token.payload /\ Expired(token.payload.exp, t)
         THEN Raises("ExpiredSignatureError")
    ELSE IF "sub" \in DOMAIN token.payload /\ token.payload.sub \notin StringValues
         THEN Raises("JWTClaimsError")                       \* Subject must be a string
    ELSE Returns(token.payload)

\* decode_access_token(token) called at time t
decode_access_token_message(token, t) ==
    LET r == jwt_decode(token, SECRET_KEY, {ALGORITHM}, t)
    IN IF r.kind = "raise" /\ r.exc \in JWTErrors
       THEN [kind |-> "message", text |-> r.exc] ELSE r
decode_access_token(token, t) ==
    LET r == jwt_decode(token, SECRET_KEY, {ALGORITHM}, t)
    IN IF r.kind = "raise" /\ r.exc \in JWTErrors THEN None ELSE r

\* Practices/jwt_practice.py: create_acess_token and decode_access_token
practice_create_acess_token_call(data, expires_delta, t) ==
    create_token_call(data, expires_delta, t, Minutes(30), PRACTICE_KEY, "HS256")
practice_create_acess_token(data, expires_delta, t) ==
    practice_create_acess_token_call(data, expires_delta, t).token
practice_decode_access_token(token, t) ==
    LET r == jwt_decode(token, PRACTICE_KEY, {"HS256"}, t)
    IN IF r.kind = "raise" /\ r.exc \in JWTErrors THEN None ELSE r

\* the two modules that define the token functions
Modules == {"auth_utils", "jwt_practice"}
Create(module, data, expires_delta, t) ==
    IF module = "auth_utils" THEN create_access_token(data, expires_delta, t)
    ELSE practice_create_acess_token(data, expires_delta, t)
CallerData(module, data, expires_delta, t) ==
    IF module = "auth_utils" THEN create_access_token_call(data, expires_delta, t).data
    ELSE practice_create_acess_token_call(data, expires_delta, t).data
Decode(module, token, t) ==
    IF module = "auth_utils" THEN decode_access_token(token, t)
    ELSE practice_decode_access_token(token, t)

\* protected_route of Youtube Tuts/11. JWT Access Token Creation/app.py,
\* with the decode function of the given module
Unauthorized == [status_code |-> 401, detail |-> "Invalid or expired token"]
protected_route(module, token, t) ==
    LET payload == Decode(module, token, t)
    IN IF payload = None THEN Unauthorized
       ELSE IF payload.kind = "payload" /\ "sub" \in DOMAIN payload.payload
            THEN [status_code |-> 200, detail |-> payload.payload.sub]
       ELSE [status_code |-> 500, detail |-> "Internal Server Error"]

\* the claims maps and durations the token functions are called with
TokenData ==
    { [sub |-> "isfar"], [sub |-> "alice", role |-> "admin"], [sub |-> "7"],
      [sub |-> "isfar", exp |-> 1] }
Deltas == {<<>>} \cup {<<d>> : d \in -1..MaxDelta}

\* the token strings a holder of token tk can present
\*   tampered : one character of the signature segment changed
\*   malformed: the signature segment cut off, the header without alg, or
\*              with an alg that is not allowed
\*   forged   : the claims changed under the old signature, or the same
\*              claims signed with another key
Tampered(tk) ==
    {[tk EXCEPT !.signature[i] = ch] : i \in 1..Len(tk.signature), ch \in 0..63} \ {tk}
Malformed(tk) ==
    { [tk EXCEPT !.segments = 2], [tk EXCEPT !.header = [typ |-> "JWT"]],
      [tk EXCEPT !.header = Header("none")] }
Forged(tk, key) ==
    { [tk EXCEPT !.payload.exp = @ + 3600],
      [tk EXCEPT !.payload = [k \in DOMAIN @ |-> IF k = "sub" THEN "admin" ELSE @[k]]],
      [tk EXCEPT !.signature =
          base64url_encode(HS256(IF key = SECRET_KEY THEN PRACTICE_KEY ELSE SECRET_KEY,
                                 tk.header, tk.payload))] }
Presentable(how, tk, key) ==
    CASE how = "original" -> {tk}
      [] how = "tampered" -> Tampered(tk)
      [] how = "malformed" -> Malformed(tk)
      [] how = "forged" -> Forged(tk, key)

\* a call of create_access_token.  The token is issued within the first
\* second, at any phase of the clock within that second.  caller_data is
\* the caller's claims mapping after the call.
TokCreate(module, data, expires_delta) ==
    /\ ~created.issued
    /\ now < Resolution
    /\ created' = [issued |-> TRUE, module |-> module, data |-> data,
                   expires_delta |-> expires_delta, at |-> now,
                   token |-> Create(module, data, expires_delta, now),
                   caller_data |-> CallerData(module, data, expires_delta, now)]
    /\ UNCHANGED <<now, call, rl_vars, app_vars, auth_vars, sender_vars, reg_vars, store_vars>>

\* a call of decode_access_token, and of protected_route, on a presented
\* token; the state records one call per clock value
TokDecode(how) ==
    /\ created.issued
    /\ call = NoCall
    /\ how = "tampered" => created.module = "auth_utils"
    /\ \E token \in Presentable(how, created.token,
                                  IF created.module = "auth_utils" THEN SECRET_KEY
                                  ELSE PRACTICE_KEY) :
          call' = [made |-> TRUE, how |-> how, token |-> token, at |-> now,
                   result |-> Decode(created.module, token, now),
                   response |-> protected_route(created.module, token, now)]
    /\ UNCHANGED <<now, created, rl_vars, app_vars, auth_vars, sender_vars, reg_vars, store_vars>>

\* timedelta(minutes=ACCESS_TOKEN_EXPIRE_MINUTES) in ticks
AccessTicks == Minutes(ACCESS_TOKEN_EXPIRE_MINUTES)

\* single ticks carry the clock past the expiry of every explicit
\* expires_delta
FineLimit == MaxDelta + 2 * Resolution

\* time passes, by a tick or, once, by the lifetime of an access token; the
\* result of the latest call is consumed by then
TokTick ==
    /\ now % AccessTicks < FineLimit
    /\ now' = now + 1
    /\ call' = NoCall
    /\ UNCHANGED <<created, rl_vars, app_vars, auth_vars, sender_vars, reg_vars, store_vars>>
TokJump ==
    /\ now < AccessTicks
    /\ now' = now + AccessTicks
    /\ call' = NoCall
    /\ UNCHANGED <<created, rl_vars, app_vars, auth_vars, sender_vars, reg_vars, store_vars>>

TokNext ==
    \/ \E module \in Modules, data \in TokenData, expires_delta \in Deltas :
          TokCreate(module, data, expires_delta)
    \/ \E how \in {"original", "tampered", "malformed", "forged"} : TokDecode(how)
    \/ TokTick
    \/ TokJump

SpecToken == Init /\ [][TokNext]_vars


----------------------------------------------------------------------------
(* The token endpoints:                                                    *)
(*   Youtube Tuts/11. JWT Access Token Creation/app.py                     *)
(* app.py imports the token and password functions from the auth_utils     *)
(* module of its chapter.  create_access_token, decode_access_token,       *)
(* hash_password and verify_password are those of auth_utils.py above;     *)
(* create_refresh_token and decode_refresh_token are not in the sources    *)
(* and follow the specification: the same operation and the same secret    *)
(* as the access token, with a longer default lifetime.                    *)

\* the users and passwords of the requests.  A password is kept as its
\* first 72 bytes (head), the bytes after them (tail) and whether a NUL
\* byte occurs in it: the parts bcrypt treats differently.
Usernames == {"isfar", "alice"}
Passwords ==
    { [head |-> "pw1", tail |-> "", nul |-> FALSE],
      [head |-> "pw2", tail |-> "", nul |-> FALSE],
      [head |-> "pw1", tail |-> "x", nul |-> FALSE],
      [head |-> "pw1", tail |-> "", nul |-> TRUE] }

\* the salts bcrypt draws for a new hash
Salts == {"s1", "s2"}

\* the bcrypt digest: of the salt and the first 72 bytes of the secret
Checksum(salt, secret) == <<salt, secret.head>>

\* the name `hash` where no hash was bound: Python's builtin function
BuiltinHash == [kind |-> "builtin"]

\* CryptContext(schemes=["bcrypt"]).hash(secret) with the salt drawn: a
\* secret with a NUL byte is refused, a longer one is cut to 72 bytes
pwd_hash(secret, salt) ==
    IF secret.nul THEN Raises("PasswordValueError")
    ELSE [kind |-> "hash", salt |-> salt, digest |-> Checksum(salt, secret)]

\* CryptContext(schemes=["bcrypt"]).verify(secret, hash): the hash must be
\* a string, the secret without NUL byte; then the digest of the secret
\* under the salt of the hash is compared with the digest of the hash
pwd_verify_untruncated(secret, hash) ==
    IF hash.kind # "hash" THEN Raises("TypeError")
    ELSE IF secret.nul THEN Raises("PasswordValueError")
    ELSE [kind |-> "bool",
          value |-> hash.digest = Checksum(hash.salt, secret) /\ secret.tail = ""]
pwd_verify(secret, hash) ==
    IF hash.kind # "hash" THEN Raises("TypeError")
    ELSE IF secret.nul THEN Raises("PasswordValueError")
    ELSE [kind |-> "bool", value |-> hash.digest = Checksum(hash.salt, secret)]

\* hash_password and verify_password of auth_utils.py
hash_password(password, salt) == pwd_hash(password, salt)
verify_password(plain_password, hashed_password) ==
    pwd_verify(plain_password, hashed_password)

\* the default lifetime of a refresh token
REFRESH_TOKEN_EXPIRE_DAYS == 7
Days(d) == d * 24 * 60 * 60 * Resolution
RefreshTicks == Days(REFRESH_TOKEN_EXPIRE_DAYS)

\* create_refresh_token(data, expires_delta) called at time t
create_refresh_token(data, expires_delta, t) ==
    LET to_encode == data
        expire == t + (IF expires_delta = <<>>
                       THEN Days(REFRESH_TOKEN_EXPIRE_DAYS)
                       ELSE expires_delta[1])
    IN jwt_encode(UpdateExp(to_encode, expire), SECRET_KEY, ALGORITHM)

\* decode_refresh_token(token) called at time t
decode_refresh_token(token, t) ==
    LET r == jwt_decode(token, SECRET_KEY, {ALGORITHM}, t)
    IN IF r.kind = "raise" /\ r.exc \in JWTErrors THEN None ELSE r

\* the token strings a client can send: the tokens it was given, those
\* tokens forged, and a string that is no token at all
Held == {e.token : e \in issued}
Garbage ==
    [segments |-> 1, header |-> [typ |-> "JWT"], payload |-> [sub |-> "isfar"],
     signature |-> <<0, 0, 0, 0, 0, 0, 0>>]
Sendable ==
    Held \cup {Garbage}
         \cup UNION {Forged(tk, SECRET_KEY) : tk \in Held}

\* the endpoints return at most MaxTokens distinct tokens; the state
\* records one endpoint call per clock value
CanIssue(tokens) == Cardinality(issued \cup tokens) <= MaxTokens

\* POST /register: the row is added without looking for the username; an
\* exception of hash_password is answered with 500 and adds no row
InternalServerError == [status_code |-> 500, detail |-> "Internal Server Error"]
register(username, password, salt) ==
    LET hashed_password == hash_password(password, salt)
    IN
    /\ last = NoRequest
    /\ Len(users) < MaxUsers
    /\ IF hashed_password.kind = "raise"
       THEN /\ last' = [endpoint |-> "register", response |-> InternalServerError]
            /\ UNCHANGED users
       ELSE /\ users' = Append(users, [username |-> username,
                                    password |-> hashed_password])
            /\ last' = [endpoint |-> "register",
                        response |-> [status_code |-> 200,
                                      msg |-> "User created successfully"]]
    /\ UNCHANGED <<now, issued, refreshed, rl_vars, tok_vars, auth_vars, sender_vars, reg_vars, store_vars>>

\* POST /login: the first row with the username, the password verified
\* against its hash, and an access and a refresh token for its username;
\* an exception of verify_password is answered with 500.
\* authenticate is the test `not db_user or not verify_password(...)`.
authenticate_no_password(rows, password) ==
    IF rows = <<>>
    THEN [status_code |-> 400, detail |-> "Invalid credentials"]
    ELSE [status_code |-> 200]
authenticate(rows, password) ==
    IF rows = <<>>
    THEN [status_code |-> 400, detail |-> "Invalid credentials"]
    ELSE LET valid == verify_password(password, rows[1].password)
         IN IF valid.kind = "raise" THEN InternalServerError
            ELSE IF ~valid.value
            THEN [status_code |-> 400, detail |-> "Invalid credentials"]
            ELSE [status_code |-> 200]
login(username, password) ==
    LET rows == SelectSeq(users, LAMBDA u : u.username = username)
        checked == authenticate(rows, password)
    IN
    /\ last = NoRequest
    /\ IF checked.status_code # 200
       THEN /\ last' = [endpoint |-> "login", username |-> username,
                        password |-> password, response |-> checked]
            /\ UNCHANGED <<now, users, issued, refreshed, rl_vars, tok_vars, auth_vars, sender_vars, reg_vars, store_vars>>
       ELSE LET db_user == rows[1]
                access_token == create_access_token([sub |-> db_user.username], <<>>, now)
                refresh_token == create_refresh_token([sub |-> db_user.username], <<>>, now)
                tokens == {[kind |-> "access", token |-> access_token],
                           [kind |-> "refresh", token |-> refresh_token]}
            IN /\ CanIssue(tokens)
               /\ issued' = issued \cup tokens
               /\ last' = [endpoint |-> "login", username |-> username,
                           password |-> password,
                           response |-> [status_code |-> 200,
                                         access_token |-> access_token,
                                         refresh_token |-> refresh_token]]
               /\ UNCHANGED <<now, users, refreshed, rl_vars, tok_vars, auth_vars, sender_vars, reg_vars, store_vars>>

\* POST /refresh: 401 when the token does not decode, otherwise a new access
\* token for the subject of the payload; payload["sub"] of a payload without
\* sub is a KeyError, answered with 500
refresh_token_endpoint(refresh_token) ==
    LET payload == decode_refresh_token(refresh_token, now)
    IN
    /\ last = NoRequest
    /\ IF payload = None
       THEN /\ last' = [endpoint |-> "refresh", token |-> refresh_token,
                        response |-> [status_code |-> 401,
                                      detail |-> "Invalid or expired refresh token"]]
            /\ UNCHANGED <<now, users, issued, refreshed, rl_vars, tok_vars, auth_vars, sender_vars, reg_vars, store_vars>>
       ELSE IF payload.kind = "payload" /\ "sub" \in DOMAIN payload.payload
       THEN LET new_access_token ==
                    create_access_token([sub |-> payload.payload.sub], <<>>, now)
                tokens == {[kind |-> "access", token |-> new_access_token]}
                uses == IF refresh_token \in DOMAIN refreshed
                        THEN refreshed[refresh_token] ELSE 0
            IN /\ CanIssue(tokens)
               /\ uses < MaxUses
               /\ issued' = issued \cup tokens
               /\ refreshed' = [tk \in DOMAIN refreshed \cup {refresh_token} |->
                                   IF tk = refresh_token THEN uses + 1
                                   ELSE refreshed[tk]]
               /\ last' = [endpoint |-> "refresh", token |-> refresh_token,
                           response |-> [status_code |-> 200,
                                         access_token |-> new_access_token]]
               /\ UNCHANGED <<now, users, rl_vars, tok_vars, auth_vars, sender_vars, reg_vars, store_vars>>
       ELSE /\ last' = [endpoint |-> "refresh", token |-> refresh_token,
                        response |-> [status_code |-> 500,
                                      detail |-> "Internal Server Error"]]
            /\ UNCHANGED <<now, users, issued, refreshed, rl_vars, tok_vars, auth_vars, sender_vars, reg_vars, store_vars>>

\* GET /protected with the token as bearer credentials
get_protected(token) ==
    /\ last = NoRequest
    /\ last' = [endpoint |-> "protected", token |-> token,
                response |-> protected_route("auth_utils", token, now)]
    /\ UNCHANGED <<now, users, issued, refreshed, rl_vars, tok_vars, auth_vars, sender_vars, reg_vars, store_vars>>

\* time passes: by a tick within the first second of an epoch, once by the
\* lifetime of an access token and once by the lifetime of a refresh token;
\* the response of the latest call is consumed by then
AppTick ==
    /\ now % AccessTicks < Resolution
    /\ now' = now + 1
    /\ last' = NoRequest
    /\ UNCHANGED <<users, issued, refreshed, rl_vars, tok_vars, auth_vars, sender_vars, reg_vars, store_vars>>
AppJumpAccess ==
    /\ now % RefreshTicks < AccessTicks
    /\ now' = now + AccessTicks
    /\ last' = NoRequest
    /\ UNCHANGED <<users, issued, refreshed, rl_vars, tok_vars, auth_vars, sender_vars, reg_vars, store_vars>>
AppJumpRefresh ==
    /\ now < RefreshTicks
    /\ now' = now + RefreshTicks
    /\ last' = NoRequest
    /\ UNCHANGED <<users, issued, refreshed, rl_vars, tok_vars, auth_vars, sender_vars, reg_vars, store_vars>>

AppNext ==
    \/ \E username \in Usernames, password \in Passwords, salt \in Salts :
          register(username, password, salt)
    \/ \E username \in Usernames, password \in Passwords :
          login(username, password)
    \/ \E refresh_token \in Sendable : refresh_token_endpoint(refresh_token)
    \/ \E token \in Sendable : get_protected(token)
    \/ AppTick
    \/ AppJumpAccess
    \/ AppJumpRefresh

SpecApp == Init /\ [][AppNext]_vars

----------------------------------------------------------------------------
(* Password functions:                                                     *)
(*   Course_by_ProgrammingKnowledge/11. JWT Access Token Creation/auth_utils.py *)
(*   Youtube Tuts/14. n8n with FastAPI/auth_utils.py                       *)
(*   Practices/jwt_practice.py                                             *)

\* Youtube Tuts/14. n8n with FastAPI/auth_utils.py
n8n_hash_password(password, salt) == pwd_hash(password, salt)
n8n_verify_password(plain_password, hashed_password) ==
    pwd_verify(plain_password, hashed_password)

\* Practices/jwt_practice.py: verify_password(password, has) hands
\* password_context.verify the name `hash`, which is not its parameter
practice_hash_password(password, salt) == pwd_hash(password, salt)
practice_verify_password(password, has) == pwd_verify(password, BuiltinHash)

\* the three modules that define hash_password and verify_password
PasswordModules == {"auth_utils", "n8n_auth_utils", "jwt_practice"}
HashPassword(module, password, salt) ==
    CASE module = "auth_utils" -> hash_password(password, salt)
      [] module = "n8n_auth_utils" -> n8n_hash_password(password, salt)
      [] module = "jwt_practice" -> practice_hash_password(password, salt)
VerifyPassword(module, password, digest) ==
    CASE module = "auth_utils" -> verify_password(password, digest)
      [] module = "n8n_auth_utils" -> n8n_verify_password(password, digest)
      [] module = "jwt_practice" -> practice_verify_password(password, digest)

\* the plaintexts the functions are called with
Plaintexts == Passwords \cup {[head |-> "pw2", tail |-> "y", nul |-> FALSE]}

\* a call of hash_password
PwHash(module, password, salt) ==
    /\ hashed = NoCall
    /\ hashed' = [made |-> TRUE, module |-> module, password |-> password,
                  result |-> HashPassword(module, password, salt)]
    /\ UNCHANGED <<now, verified, accounts, answers, rl_vars, tok_vars, app_vars, sender_vars, reg_vars, store_vars>>

\* a call of verify_password of the same module on the hash returned
PwVerify(password) ==
    /\ hashed # NoCall
    /\ hashed.result.kind = "hash"
    /\ verified = NoCall
    /\ verified' = [made |-> TRUE, password |-> password,
                    result |-> VerifyPassword(hashed.module, password, hashed.result)]
    /\ UNCHANGED <<now, hashed, accounts, answers, rl_vars, tok_vars, app_vars, sender_vars, reg_vars, store_vars>>

PasswordNext ==
    \/ \E module \in PasswordModules, password \in Plaintexts, salt \in Salts :
          PwHash(module, password, salt)
    \/ \E password \in Plaintexts : PwVerify(password)

SpecPassword == Init /\ [][PasswordNext]_vars

----------------------------------------------------------------------------
(* The login applications:                                                 *)
(*   Youtube Tuts/11. JWT Access Token Creation/app.py            ("yt11") *)
(*   Youtube Tuts/5. User Authentication System/app.py            ("yt5")  *)
(*   Course_by_ProgrammingKnowledge/5. User Authentication System/app.py   *)
(*                                                             ("course5") *)
(* A row of `accounts` holds the username, the stored password and, for    *)
(* reference, the plaintext it was registered with.                        *)

LoginApps == {"yt11", "yt5", "course5"}

\* the rows select(User).where(User.username == username) returns
RowsOf(rows, username) == SelectSeq(rows, LAMBDA u : u.username = username)

AlreadyExists == [status_code |-> 400, detail |-> "Username Already Exists"]
InvalidLogin == [status_code |-> 400, detail |-> "Invalid Username or Password"]

\* POST /register of yt5: the username must be new, the password is hashed
yt5_register(rows, username, password, salt) ==
    LET hashed_password == pwd_hash(password, salt)
    IN IF RowsOf(rows, username) # <<>>
       THEN [response |-> AlreadyExists, rows |-> rows]
       ELSE IF hashed_password.kind = "raise"
       THEN [response |-> InternalServerError, rows |-> rows]
       ELSE [response |-> [status_code |-> 200,
                           message |-> "User registered successfully!"],
             rows |-> Append(rows, [username |-> username,
                                    password |-> hashed_password,
                                    plain |-> password])]

\* POST /login of yt5
yt5_login(rows, username, password) ==
    LET existing_user == RowsOf(rows, username)
    IN IF existing_user = <<>> THEN InvalidLogin
       ELSE LET is_valid == pwd_verify(password, existing_user[1].password)
            IN IF is_valid.kind = "raise" THEN InternalServerError
               ELSE IF ~is_valid.value THEN InvalidLogin
               ELSE [status_code |-> 200, message |-> "Login successful!"]

\* POST /register of course5: the username must be new, the password is
\* stored as it is
course5_register(rows, username, password) ==
    IF RowsOf(rows, username) # <<>>
    THEN [response |-> AlreadyExists, rows |-> rows]
    ELSE [response |-> [status_code |-> 200,
                        message |-> "User registered successfully!"],
          rows |-> Append(rows, [username |-> username, password |-> password,
                                 plain |-> password])]

\* POST /login of course5
course5_login(rows, username, password) ==
    LET existing_user == RowsOf(rows, username)
    IN IF existing_user = <<>> THEN InvalidLogin
       ELSE IF existing_user[1].password # password THEN InvalidLogin
       ELSE [status_code |-> 200, message |-> "Login successful!"]

\* POST /register of yt11, as in register above
yt11_register(rows, username, password, salt) ==
    LET hashed_password == hash_password(password, salt)
    IN IF hashed_password.kind = "raise"
       THEN [response |-> InternalServerError, rows |-> rows]
       ELSE [response |-> [status_code |-> 200, msg |-> "User created successfully"],
             rows |-> Append(rows, [username |-> username,
                                    password |-> hashed_password,
                                    plain |-> password])]

RegisterIn(app, rows, username, password, salt) ==
    CASE app = "yt11" -> yt11_register(rows, username, password, salt)
      [] app = "yt5" -> yt5_register(rows, username, password, salt)
      [] app = "course5" -> course5_register(rows, username, password)
LoginIn(app, rows, username, password) ==
    CASE app = "yt11" -> authenticate(RowsOf(rows, username), password)
      [] app = "yt5" -> yt5_login(rows, username, password)
      [] app = "course5" -> course5_login(rows, username, password)

\* why a login is not a login with the right credentials: the username has
\* no row, or the password is not the one the first row was registered with
Cause(rows, username, password) ==
    IF RowsOf(rows, username) = <<>> THEN "no_user"
    ELSE IF RowsOf(rows, username)[1].plain # password THEN "wrong_password"
    ELSE "right_password"

\* a request to /register of one application; all requests of a behaviour
\* go to the same application
LoginRegister(app, username, password, salt) ==
    /\ accounts.app \in {"none", app}
    /\ Len(accounts.rows) < MaxUsers
    /\ accounts' = [app |-> app,
                    rows |-> RegisterIn(app, accounts.rows, username, password, salt).rows]
    /\ UNCHANGED <<now, hashed, verified, answers, rl_vars, tok_vars, app_vars, sender_vars, reg_vars, store_vars>>

\* a request to /login; the answer to a login without the right
\* credentials is kept with its cause
LoginAttempt(app, username, password) ==
    LET cause == Cause(accounts.rows, username, password)
        response == LoginIn(app, accounts.rows, username, password)
    IN
    /\ accounts.app \in {"none", app}
    /\ accounts' = [accounts EXCEPT !.app = app]
    /\ answers' = IF cause = "right_password" THEN answers
                  ELSE answers \cup {[cause |-> cause, response |-> response]}
    /\ UNCHANGED <<now, hashed, verified, rl_vars, tok_vars, app_vars, sender_vars, reg_vars, store_vars>>

LoginNext ==
    \/ \E app \in LoginApps, username \in Usernames, password \in Passwords,
          salt \in Salts : LoginRegister(app, username, password, salt)
    \/ \E app \in LoginApps, username \in Usernames, password \in Passwords :
          LoginAttempt(app, username, password)

SpecLogin == Init /\ [][LoginNext]_vars

----------------------------------------------------------------------------
(* The retry client and the server it posts to:                            *)
(*   Two_Server_Connect/sender.py, Two_Server_Connect/reciever.py          *)

\* reciever.py
API_KEY == "supersecret"

\* sender.py: the X-API-Key header
HEADERS == [x_api_key |-> "supersecret"]

\* a response: its status code and its body, JSON or plain text
Response(status_code, kind, value) ==
    [status_code |-> status_code, body |-> [kind |-> kind, value |-> value]]

\* POST /ask of reciever.py; llm_ok: llm.invoke returned a reply.  When it
\* raises, the server answers 500 with the plain text body
ask(x_api_key, llm_ok) ==
    IF x_api_key # API_KEY
    THEN Response(401, "json", "Unauthorized")
    ELSE IF llm_ok
         THEN Response(200, "json", "ok")
         ELSE Response(500, "text", "Internal Server Error")

\* what the network does to one POST: the connection is refused, it is not
\* made within the connect timeout, the reply does not come within the read
\* timeout, or the server's reply is delivered
Network == {"refused", "connect_timeout", "read_timeout", "delivered"}

\* requests.post(URL, json=payload, headers=HEADERS, timeout=(3, 10))
requests_post(network, llm_ok) ==
    IF network = "refused" THEN Raises("ConnectionError")
    ELSE IF network = "connect_timeout" THEN Raises("ConnectTimeout")
    ELSE IF network = "read_timeout" THEN Raises("ReadTimeout")
    ELSE Returns(ask(HEADERS.x_api_key, llm_ok))

\* r.raise_for_status(): HTTPError for a 4xx or 5xx status
raise_for_status(r) ==
    IF r.status_code >= 400 /\ r.status_code < 600 THEN Raises("HTTPError") ELSE None

\* r.json()
json(r) ==
    IF r.body.kind = "json" THEN Returns(r.body.value) ELSE Raises("JSONDecodeError")

\* the exception classes `except requests.RequestException` catches
RequestExceptions ==
    {"ConnectionError", "ConnectTimeout", "ReadTimeout", "HTTPError", "JSONDecodeError"}

\* for attempt in range(3)
range_3 == 0..2

\* if attempt == 2: raise
is_last_attempt_never(attempt) == FALSE
is_last_attempt(attempt) == attempt = 2

\* time.sleep(1.5), in tenths of a second
sleep_tenths == 15

\* an exception raised inside the try block ends the attempt: the handler
\* takes a RequestException, any other exception leaves the script
Thrown(exc) ==
    [sender EXCEPT !.pc = IF exc \in RequestExceptions THEN "except" ELSE "raised",
                   !.exc = exc,
                   !.trace = Append(@, exc)]

\* line 11: r = requests.post(...)
SenderPost(network, llm_ok) ==
    /\ sender.pc = "post"
    /\ LET res == requests_post(network, llm_ok)
           posted == [sender EXCEPT !.posts = Append(@, sender.attempt)]
       IN sender' = IF res.kind = "raise"
                    THEN [Thrown(res.exc) EXCEPT !.posts = posted.posts]
                    ELSE [posted EXCEPT !.r = res.payload, !.pc = "raise_for_status"]
    /\ UNCHANGED <<now, rl_vars, tok_vars, app_vars, auth_vars, reg_vars, store_vars>>

\* line 12: r.raise_for_status()
SenderRaiseForStatus ==
    /\ sender.pc = "raise_for_status"
    /\ LET res == raise_for_status(sender.r)
       IN sender' = IF res = None
                    THEN [sender EXCEPT !.pc = "print"]
                    ELSE Thrown(res.exc)
    /\ UNCHANGED <<now, rl_vars, tok_vars, app_vars, auth_vars, reg_vars, store_vars>>

\* lines 13-14: print(r.json()); break
SenderPrint ==
    /\ sender.pc = "print"
    /\ LET res == json(sender.r)
       IN sender' = IF res.kind = "raise"
                    THEN Thrown(res.exc)
                    ELSE [sender EXCEPT !.printed = Append(@, res.payload),
                                        !.trace = Append(@, "ok"),
                                        !.pc = "done"]
    /\ UNCHANGED <<now, rl_vars, tok_vars, app_vars, auth_vars, reg_vars, store_vars>>

\* lines 15-16: except requests.RequestException as e: if attempt == 2: raise
SenderExcept ==
    /\ sender.pc = "except"
    /\ sender' = [sender EXCEPT !.pc = IF is_last_attempt(sender.attempt)
                                       THEN "raised" ELSE "sleep"]
    /\ UNCHANGED <<now, rl_vars, tok_vars, app_vars, auth_vars, reg_vars, store_vars>>

\* line 17 and the loop header: time.sleep(1.5), then the next value of
\* range(3); the loop ends when there is none
SenderSleep ==
    /\ sender.pc = "sleep"
    /\ sender' = IF sender.attempt + 1 \in range_3
                 THEN [sender EXCEPT !.slept = Append(@, sleep_tenths),
                                     !.attempt = @ + 1,
                                     !.exc = NoException,
                                     !.pc = "post"]
                 ELSE [sender EXCEPT !.slept = Append(@, sleep_tenths),
                                     !.exc = NoException,
                                     !.pc = "done"]
    /\ UNCHANGED <<now, rl_vars, tok_vars, app_vars, auth_vars, reg_vars, store_vars>>

SenderNext ==
    \/ \E network \in Network, llm_ok \in BOOLEAN : SenderPost(network, llm_ok)
    \/ SenderRaiseForStatus
    \/ SenderPrint
    \/ SenderExcept
    \/ SenderSleep

\* the script is one sequential process: while a step is possible it takes it
SpecSender == Init /\ [][SenderNext]_vars /\ WF_vars(SenderNext)

----------------------------------------------------------------------------
(* The async registration application:                                     *)
(*   Course_by_ProgrammingKnowledge/5. User Authentication System/app.py   *)
(* Its handlers are coroutines of one event loop: a handler runs from one  *)
(* await to the next without interruption, and other handlers run while it *)
(* waits for the database.                                                 *)

\* the number of register requests the model follows
MaxRegisters == 2

\* metadata.create_all(engine); the table comes from models.py, which may or
\* may not declare the username column unique
create_all(unique) ==
    /\ course_users = NoTable
    /\ course_users' = [created |-> TRUE, unique |-> unique, rows |-> <<>>]
    /\ UNCHANGED <<now, registering, rl_vars, tok_vars, app_vars, auth_vars,
                   sender_vars, store_vars>>

\* the passwords the register requests carry
RegisterPasswords == {p \in Passwords : p.tail = "" /\ ~p.nul}

UserRegistered == [status_code |-> 200, message |-> "User registered successfully!"]

\* POST /register arrives: the handler builds the select and awaits fetch_one
register_request(username, password) ==
    /\ course_users.created
    /\ Len(registering) < MaxRegisters
    /\ registering' = Append(registering,
                             [username |-> username, password |-> password,
                              pc |-> "fetch_one", response |-> NoResponse,
                              inserted |-> FALSE, existed |-> FALSE])
    /\ UNCHANGED <<now, course_users, rl_vars, tok_vars, app_vars, auth_vars,
                   sender_vars, store_vars>>

\* lines 27-33: the database answers the select; the handler resumes, raises
\* 400 when a row came back, otherwise builds the insert and awaits execute
register_fetch_one(i) ==
    /\ registering[i].pc = "fetch_one"
    /\ LET existing_user == RowsOf(course_users.rows, registering[i].username)
       IN registering' =
            [registering EXCEPT ![i] =
               IF existing_user # <<>>
               THEN [@ EXCEPT !.pc = "done", !.response = AlreadyExists,
                              !.existed = TRUE]
               ELSE [@ EXCEPT !.pc = "execute"]]
    /\ UNCHANGED <<now, course_users, rl_vars, tok_vars, app_vars, auth_vars,
                   sender_vars, store_vars>>

\* lines 34-35: the database runs the insert; a unique column refuses a
\* second row of the username and execute raises IntegrityError, which
\* nothing catches; otherwise the row is added and the handler returns
register_execute(i) ==
    /\ registering[i].pc = "execute"
    /\ LET r == registering[i]
           existing == RowsOf(course_users.rows, r.username)
       IN IF course_users.unique /\ existing # <<>>
          THEN /\ registering' =
                    [registering EXCEPT ![i] =
                       [@ EXCEPT !.pc = "done", !.response = InternalServerError,
                                 !.existed = TRUE]]
               /\ UNCHANGED course_users
          ELSE /\ course_users' =
                    [course_users EXCEPT !.rows =
                       Append(@, [username |-> r.username,
                                  password |-> r.password,
                                  plain |-> r.password])]
               /\ registering' =
                    [registering EXCEPT ![i] =
                       [@ EXCEPT !.pc = "done", !.response = UserRegistered,
                                 !.inserted = TRUE,
                                 !.existed = existing # <<>>]]
    /\ UNCHANGED <<now, rl_vars, tok_vars, app_vars, auth_vars,
                   sender_vars, store_vars>>

RegisterNext ==
    \/ \E unique \in BOOLEAN : create_all(unique)
    \/ \E username \in Usernames, password \in RegisterPasswords :
          register_request(username, password)
    \/ \E i \in 1..Len(registering) : register_fetch_one(i)
    \/ \E i \in 1..Len(registering) : register_execute(i)

SpecRegister == Init /\ [][RegisterNext]_vars

----------------------------------------------------------------------------
(* The patient store: post_request.py (create) and put_and_delete.py       *)
(* (update, delete), both on the file basic_view.json.                     *)
(* The handlers are plain `def` functions, which the server runs on worker *)
(* threads: any two of them interleave at every access to the file.        *)

\* the number of handler calls the model follows
MaxCalls == 3

PatientIds == {"P001", "P002"}

\* the body of POST /create, less its id, and the body of PUT /patients/{id}
\* with the fields it sets
NewPatients == {[name |-> "ann", city |-> "dhaka"]}
PatientUpdates == {[city |-> "bogra"]}
Bodies(op) ==
    IF op = "create_patient" THEN NewPatients
    ELSE IF op = "update" THEN PatientUpdates
    ELSE {None}
Handlers == {"create_patient", "update", "delete"}

\* a handler's result: the status it answers and the mapping it saves;
\* `save` says whether it goes on to save_json
Answer(status_code, save, data) ==
    [status_code |-> status_code, save |-> save, data |-> data]

\* post_request.py, create_patient between load_json and save_json
create_patient(data, id, patient) ==
    IF id \in DOMAIN data
    THEN Answer(400, FALSE, data)
    ELSE Answer(201, TRUE,
                [k \in DOMAIN data \cup {id} |-> IF k = id THEN patient ELSE data[k]])

\* put_and_delete.py, update between load_json and save_json: the fields the
\* body sets replace those of the stored patient
update(data, patient_id, patient) ==
    IF patient_id \notin DOMAIN data
    THEN Answer(404, FALSE, data)
    ELSE LET existing_patient == data[patient_id]
             modified_patient ==
                 [f \in DOMAIN existing_patient |->
                     IF f \in DOMAIN patient THEN patient[f] ELSE existing_patient[f]]
         IN Answer(200, TRUE, [data EXCEPT ![patient_id] = modified_patient])

\* put_and_delete.py, delete between load_json and save_json
delete(data, patient_id) ==
    IF patient_id \notin DOMAIN data
    THEN Answer(404, FALSE, data)
    ELSE Answer(200, TRUE, [k \in DOMAIN data \ {patient_id} |-> data[k]])

Handle(op, data, id, body) ==
    IF op = "create_patient" THEN create_patient(data, id, body)
    ELSE IF op = "update" THEN update(data, id, body)
    ELSE delete(data, id)

\* the handler of worker w returns: its call is recorded, the thread is free
Return(w, status_code, existing, wrote) ==
    /\ returned' = Append(returned, [op |-> workers[w].op, id |-> workers[w].id,
                                     status_code |-> status_code,
                                     existing |-> existing, wrote |-> wrote])
    /\ workers' = [workers EXCEPT ![w] = FreeWorker]

\* a request arrives and a free worker thread takes its handler
handler_start(w, op, id, body) ==
    /\ workers[w] = FreeWorker
    /\ Len(returned) + Cardinality({v \in Workers : workers[v] # FreeWorker}) < MaxCalls
    /\ workers' = [workers EXCEPT ![w] =
                     [pc |-> "load_json", op |-> op, id |-> id, body |-> body,
                      data |-> EmptyObject, status_code |-> 0]]
    /\ UNCHANGED <<now, basic_view, returned, rl_vars, tok_vars, app_vars, auth_vars,
                   sender_vars, reg_vars>>

\* data = load_json(), then the handler up to save_json: json.load raises on
\* a file that holds no JSON document and the request is answered 500; a
\* handler that finds nothing to change returns its error without saving
load_json(w) ==
    /\ workers[w].pc = "load_json"
    /\ IF basic_view.kind # "json"
       THEN /\ Return(w, 500, FALSE, FALSE)
            /\ UNCHANGED basic_view
       ELSE LET answer == Handle(workers[w].op, basic_view.data,
                                 workers[w].id, workers[w].body)
            IN IF answer.save
               THEN /\ workers' = [workers EXCEPT ![w] =
                                     [@ EXCEPT !.pc = "open", !.data = answer.data,
                                               !.status_code = answer.status_code]]
                    /\ UNCHANGED <<basic_view, returned>>
               ELSE /\ Return(w, answer.status_code,
                              workers[w].id \in DOMAIN basic_view.data, FALSE)
                    /\ UNCHANGED basic_view
    /\ UNCHANGED <<now, rl_vars, tok_vars, app_vars, auth_vars, sender_vars, reg_vars>>

\* save_json, open("basic_view.json", "w"): the file is truncated
save_json_open(w) ==
    /\ workers[w].pc = "open"
    /\ basic_view' = EmptyFile
    /\ workers' = [workers EXCEPT ![w] = [@ EXCEPT !.pc = "dump"]]
    /\ UNCHANGED <<now, returned, rl_vars, tok_vars, app_vars, auth_vars,
                   sender_vars, reg_vars>>

\* what the file holds after the document is written at its start: the
\* document, or the document followed by the rest of a longer content that
\* another thread wrote after this one had truncated the file
Overwritten(file, data) ==
    IF file.length > JsonFile(data).length
    THEN GarbledFile(file.length)
    ELSE JsonFile(data)

\* save_json, json.dump(data, f) and the close of the file, then the return
\* of the handler
save_json_dump(w) ==
    /\ workers[w].pc = "dump"
    /\ basic_view' = Overwritten(basic_view, workers[w].data)
    /\ Return(w, workers[w].status_code, FALSE, TRUE)
    /\ UNCHANGED <<now, rl_vars, tok_vars, app_vars, auth_vars, sender_vars, reg_vars>>

StoreNext ==
    \/ \E w \in Workers, op \in Handlers, id \in PatientIds :
          \E body \in Bodies(op) : handler_start(w, op, id, body)
    \/ \E w \in Workers : load_json(w)
    \/ \E w \in Workers : save_json_open(w)
    \/ \E w \in Workers : save_json_dump(w)

SpecStore == Init /\ [][StoreNext]_vars

----------------------------------------------------------------------------
(* Properties of the rate limiter, checked under Spec *)

\* the request was passed to call_next
Forwarded(e) == e.state \in {"in_handler", "returned"}

\* requests i, i+1, i+2 of history h arrive within one window, and no
\* earlier request of the client lies in the window before request i
Burst(h, i) ==
    /\ i + 2 <= Len(h)
    /\ i > 1 => h[i-1].time <= h[i].time - WindowTicks
    /\ h[i+2].time - h[i].time < WindowTicks

\* C1: with max_requests = 2 and a window of 1 time unit, when 3 requests
\* of one client arrive within one window the first 2 are forwarded and
\* the 3rd is rejected, and a 4th request of that client arriving more
\* than one window after them is forwarded.
C1_BurstThenRecover ==
    \A c \in Clients :
        LET h == requests[c] IN
        \A i \in 1..Len(h) :
            Burst(h, i) =>
                /\ Forwarded(h[i]) /\ Forwarded(h[i+1])
                /\ h[i+2].state = "rejected"
                /\ (i + 3 <= Len(h) /\ h[i+3].time - h[i+2].time > WindowTicks)
                      => Forwarded(h[i+3])

C1_Witness ==
    \E c \in Clients :
        LET h == requests[c] IN
        /\ Len(h) = 4
        /\ Burst(h, 1)
        /\ h[3].state = "rejected"
        /\ h[4].time - h[3].time > WindowTicks
        /\ h[4].state = "returned"

\* would the middleware forward a request of client b arriving at time t
Accepts(records, b, t) == ~RateLimitExceeded(Updated(records, ClientKey(b), t))

\* a step in which dispatch handled a request of client a
Dispatched(a) == Len(requests'[a]) = Len(requests[a]) + 1

\* C2: clients are counted independently.  A request of client a leaves
\* the timestamp record of every other client b as it was and does not
\* change whether b's next request, whenever it arrives, is accepted; and
\* the first max_requests requests of each client are forwarded whatever
\* the other clients send (so 2 from A and 2 from B in one window, in any
\* interleaving, all pass).
C2_ClientsIndependent ==
    /\ [](\A c \in Clients : \A i \in 1..Len(requests[c]) :
            i <= max_requests => Forwarded(requests[c][i]))
    /\ [][\A a \in Clients : \A b \in Clients \ {a} :
            Dispatched(a) =>
                /\ (b \in DOMAIN rate_limit_records') = (b \in DOMAIN rate_limit_records)
                /\ Lookup(rate_limit_records', b) = Lookup(rate_limit_records, b)
                /\ \A t \in now..MaxTime :
                      Accepts(rate_limit_records', b, t) = Accepts(rate_limit_records, b, t)
         ]_vars

C2_Witness ==
    /\ Len(requests["A"]) = 2 /\ Len(requests["B"]) = 2
    /\ \A c \in Clients : \A i \in 1..2 :
          requests[c][i].time = 0 /\ requests[c][i].state = "returned"

\* C3: every request has exactly one of two outcomes.  If its pruned and
\* appended timestamp sequence is longer than max_requests the handler is
\* never invoked and the response is the fixed 429 error; otherwise the
\* handler is invoked exactly once and its response is returned unchanged.
C3_TwoOutcomes ==
    \A c \in Clients : \A i \in 1..Len(requests[c]) :
        LET e == requests[c][i] IN
        IF e.len > max_requests
        THEN e.calls = 0 /\ e.state = "rejected" /\ e.response = TooManyRequests
        ELSE /\ e.calls = 1
             /\ e.state \in {"in_handler", "returned"}
             /\ e.state = "returned" => e.response = Handler(e.path)

C3_Witness ==
    \E c \in Clients :
        /\ Len(requests[c]) = 3
        /\ requests[c][1].state = "returned" /\ requests[c][1].path = "/"
        /\ requests[c][2].state = "returned" /\ requests[c][2].path = "/test"
        /\ requests[c][3].state = "rejected"

\* the arrival times of all requests in history h, accepted or rejected
Times(h) == [i \in 1..Len(h) |-> h[i].time]

\* C4: the pruned sequence with the current timestamp appended is stored
\* under the client key on every request, accepted or rejected: a client's
\* record always holds the arrival times of all its requests, rejected
\* ones included, that lie within the window ending at its latest request.
C4_StoredRegardless ==
    \A c \in Clients :
        LET h == requests[c] IN
        IF h = <<>> THEN c \notin DOMAIN rate_limit_records
        ELSE /\ c \in DOMAIN rate_limit_records
             /\ rate_limit_records[c] = Cleanup(Times(h), h[Len(h)].time)

C4_Witness ==
    \E c \in Clients :
        LET h == requests[c] IN
        /\ Len(h) = 4
        /\ h[3].state = "rejected" /\ h[4].state = "rejected"
        /\ Len(rate_limit_records[c]) = 4

\* C16 as stated: in every state each client's stored timestamps are in
\* non-decreasing order and all newer than now - window_size.
C16_RecordWithinCurrentWindow ==
    \A k \in DOMAIN rate_limit_records :
        LET r == rate_limit_records[k] IN
        /\ \A i \in 1..Len(r) - 1 : r[i] <= r[i+1]
        /\ \A i \in 1..Len(r) : r[i] > now - WindowTicks

\* C16: in every state each client's stored timestamps are in
\* non-decreasing arrival order, none is later than the clock, and all are
\* within the window that ended at that client's latest request (newer than
\* the latest timestamp - window_size).  They are within the current window
\* only until the clock has moved on: the record of a client that sends
\* nothing is not pruned.
C16_RecordWithinLatestWindow ==
    \A k \in DOMAIN rate_limit_records :
        LET r == rate_limit_records[k] IN
        /\ r # <<>>
        /\ r[Len(r)] <= now
        /\ \A i \in 1..Len(r) - 1 : r[i] <= r[i+1]
        /\ \A i \in 1..Len(r) : r[i] > r[Len(r)] - WindowTicks

\* a client with requests at two different times in its record, which then
\* sent nothing while a whole window passed
C16_Witness ==
    \E k \in DOMAIN rate_limit_records :
        LET r == rate_limit_records[k] IN
        /\ Len(r) >= 2
        /\ r[1] < r[Len(r)]
        /\ r[Len(r)] <= now - WindowTicks

\* the clients that have sent a request so far
Seen == {c \in Clients : requests[c] # <<>>}

\* C17: a client key is created on the client's first request and never
\* removed: the keys of rate_limit_records are the addresses of all clients
\* seen so far, and no step removes a key.
C17_KeysOnlyGrow ==
    /\ [](DOMAIN rate_limit_records = {ClientKey(c) : c \in Seen})
    /\ [][DOMAIN rate_limit_records \subseteq DOMAIN rate_limit_records']_vars

\* both clients have a key, one of them for a request a window or more ago
\* and the other for a request made since
C17_Witness ==
    /\ DOMAIN rate_limit_records = Clients
    /\ \E a \in Clients, b \in Clients :
          /\ Len(requests[a]) = 1
          /\ requests[a][1].time <= now - WindowTicks
          /\ requests[b][1].time > requests[a][1].time

\* the requests of history h up to the j-th that arrived within the window
\* ending at the j-th
InWindowOf(h, j) == {i \in 1..j : h[i].time > h[j].time - WindowTicks}

\* a step that resumes a request suspended in call_next
Resumed ==
    \E c \in Clients : \E i \in 1..Len(requests[c]) :
        requests[c][i].state = "in_handler" /\ requests'[c][i].state = "returned"

\* C18: requests of one client that interleave at await points lose no
\* timestamp.  Every request, whether earlier requests of the client are
\* still suspended in the handler or have returned, is tested against the
\* count of all the client's requests in its window; a request suspended in
\* the handler has its timestamp in the record already; N requests inside
\* one window leave N timestamps; and resuming a request changes no record.
C18_NoTimestampLost ==
    /\ [](\A c \in Clients :
            LET h == requests[c] IN
            /\ \A j \in 1..Len(h) : h[j].len = Cardinality(InWindowOf(h, j))
            /\ h # <<>> => Len(rate_limit_records[ClientKey(c)])
                              = Cardinality(InWindowOf(h, Len(h)))
            /\ \A j \in 1..Len(h) :
                  (h[j].state = "in_handler" /\ j \in InWindowOf(h, Len(h)))
                     => \E i \in 1..Len(rate_limit_records[ClientKey(c)]) :
                           rate_limit_records[ClientKey(c)][i] = h[j].time)
    /\ [][Resumed => rate_limit_records' = rate_limit_records]_vars

\* three requests of one client in one window, the first two still
\* suspended in the handler: the third saw both and was rejected, and three
\* timestamps are recorded
C18_Witness ==
    \E c \in Clients :
        LET h == requests[c] IN
        /\ Len(h) = 3
        /\ h[1].state = "in_handler" /\ h[2].state = "in_handler"
        /\ h[3].time - h[1].time < WindowTicks
        /\ h[3].len = 3 /\ h[3].state = "rejected"
        /\ Len(rate_limit_records[ClientKey(c)]) = 3

ForwardedIn(h, a) ==
    {i \in 1..Len(h) : Forwarded(h[i]) /\ a < h[i].time /\ h[i].time <= a + WindowTicks}

\* C20: with a non-decreasing clock, for every client and every interval
\* (a, a + window_size], at most max_requests of the client's requests that
\* arrived in the interval were forwarded to the handler.
C20_ThroughputBound ==
    \A c \in Clients : \A a \in (0 - WindowTicks)..MaxTime :
        Cardinality(ForwardedIn(requests[c], a)) <= max_requests

\* a client that had max_requests requests forwarded and one rejected in
\* one interval, and a request forwarded right after the interval
C20_Witness ==
    \E c \in Clients : \E a \in (0 - WindowTicks)..MaxTime :
        LET h == requests[c] IN
        /\ Cardinality(ForwardedIn(h, a)) = max_requests
        /\ \E i \in 1..Len(h) :
              h[i].state = "rejected" /\ a < h[i].time /\ h[i].time <= a + WindowTicks
        /\ \E i \in 1..Len(h) : Forwarded(h[i]) /\ h[i].time = a + WindowTicks + 1

\* the requests of history h before the j-th whose arrival time satisfies
\* the given bound relative to the j-th
Preceding(h, j, strict) ==
    {i \in 1..j-1 : /\ h[i].time > h[j].time - WindowTicks
                    /\ strict => h[i].time < h[j].time}

\* C21 as stated: a request at time t is forwarded if and only if fewer
\* than max_requests requests of the client, accepted or rejected, arrived
\* in (t - window_size, t).
C21_ForwardedIffOpenWindow ==
    \A c \in Clients : \A j \in 1..Len(requests[c]) :
        Forwarded(requests[c][j])
            <=> Cardinality(Preceding(requests[c], j, TRUE)) < max_requests

\* C21: a request at time t is forwarded if and only if fewer than
\* max_requests earlier requests of the client, accepted or rejected,
\* arrived in (t - window_size, t], earlier requests with the same clock
\* reading t included.  Hence while at least max_requests of the client's
\* requests lie in the window before each new one, every new one is
\* rejected, rejected requests keeping the window full, and the client is
\* forwarded again only when fewer than max_requests remain in the window.
C21_ForwardedIffWindow ==
    \A c \in Clients : \A j \in 1..Len(requests[c]) :
        Forwarded(requests[c][j])
            <=> Cardinality(Preceding(requests[c], j, FALSE)) < max_requests

\* a client whose 3rd and 4th requests are rejected, the 4th with only one
\* forwarded request left in its window: the rejected 3rd keeps it out
C21_Witness ==
    \E c \in Clients :
        LET h == requests[c] IN
        /\ Len(h) = 4
        /\ h[3].state = "rejected" /\ h[4].state = "rejected"
        /\ h[4].time > h[3].time
        /\ Cardinality({i \in Preceding(h, 4, FALSE) : Forwarded(h[i])}) = 1

----------------------------------------------------------------------------
(* Properties of the token functions, checked under SpecToken *)

\* the duration D of the created token, in ticks, and issuance time + D
Lifetime == IF created.expires_delta = <<>> THEN 30 * 60 * Resolution
            ELSE created.expires_delta[1]
ExpiresAt == created.at + Lifetime

\* the latest call decoded the created token as issued
DecodedOriginal == call.made /\ call.how = "original"

\* the claims of payload p are those of data, but for exp
SameClaims(p, data) ==
    /\ DOMAIN p = DOMAIN data \cup {"exp"}
    /\ \A k \in DOMAIN data \ {"exp"} : p[k] = data[k]

\* the registered claims that jwt.decode validates are well-typed in data
ValidSubject(data) == "sub" \in DOMAIN data => data.sub \in {"isfar", "alice", "admin"}

\* C5 as stated: decode(create(C, D)) within D of issuance returns C with
\* exp = issuance time + D, never the invalid result.
C5_RoundTripExact ==
    (DecodedOriginal /\ call.at <= ExpiresAt) =>
        /\ call.result.kind = "payload"
        /\ SameClaims(call.result.payload, created.data)
        /\ call.result.payload.exp * Resolution = ExpiresAt

\* C5 amended: for claims with a string subject, decode(create(C, D)) within
\* D of issuance returns C with exp = issuance time + D truncated to whole
\* seconds, never the invalid result.
C5_RoundTripSeconds ==
    (DecodedOriginal /\ call.at <= ExpiresAt /\ ValidSubject(created.data)) =>
        /\ call.result.kind = "payload"
        /\ SameClaims(call.result.payload, created.data)
        /\ call.result.payload.exp * Resolution <= ExpiresAt
        /\ ExpiresAt < (call.result.payload.exp + 1) * Resolution

C5_Witness ==
    /\ DecodedOriginal /\ call.at <= ExpiresAt
    /\ "exp" \in DOMAIN created.data
    /\ ExpiresAt % Resolution # 0
    /\ call.at > created.at
    /\ call.result.kind = "payload"

\* C6 as stated: once the clock is beyond issuance time + D, decode returns
\* the invalid result.
C6_InvalidBeyondExpiry ==
    (DecodedOriginal /\ call.at > ExpiresAt) => call.result = None

\* the clock reads a later whole second than the expiry
SecondAfterExpiry == call.at \div Resolution > ExpiresAt \div Resolution

\* C6 amended: once the clock reads a whole second later than the second of
\* issuance time + D, decode returns the invalid result, at that and at
\* every later time.
C6_InvalidAfterExpirySecond ==
    (DecodedOriginal /\ SecondAfterExpiry) => call.result = None

C6_Witness ==
    /\ DecodedOriginal /\ SecondAfterExpiry
    /\ created.expires_delta = <<>>
    /\ created.data = [sub |-> "isfar"]
    /\ call.result = None

\* the presented signature differs from the issued one in bits of the
\* digest, not only in the 2 unused bits of the last character
BytesChanged ==
    LET o == created.token.signature
        s == call.token.signature
    IN \/ \E i \in 1..(Len(o) - 1) : s[i] # o[i]
       \/ s[Len(o)] \div 4 # o[Len(o)] \div 4

\* C7 as stated: changing any single character of the signature segment
\* makes decode return the invalid result.
C7_AnyCharacterInvalid ==
    (call.made /\ call.how = "tampered") => call.result = None

\* C7 amended: a single changed character of the signature segment that
\* changes the decoded signature bytes makes decode return the invalid
\* result; a change of only the 2 unused low bits of the last character
\* decodes to the same bytes and is accepted or refused as the issued token.
C7_ChangedBytesInvalid ==
    (call.made /\ call.how = "tampered") =>
        IF BytesChanged THEN call.result = None
        ELSE call.result = IF ValidSubject(created.data)
                              /\ call.at \div Resolution <= ExpiresAt \div Resolution
                           THEN [kind |-> "payload", payload |-> created.token.payload]
                           ELSE None

C7_Witness ==
    /\ call.made /\ call.how = "tampered" /\ BytesChanged
    /\ call.token.signature[7] # created.token.signature[7]
    /\ call.at <= ExpiresAt /\ ValidSubject(created.data)
    /\ call.result = None

\* the created token is past its expiry second at the time of the call
CallAfterExpiry == call.at \div Resolution > created.token.payload.exp

\* C8: decode_access_token never raises; for a forged, malformed or expired
\* token it returns the invalid result.
C8_NeverRaises ==
    call.made =>
        /\ call.result.kind # "raise"
        /\ (call.how \in {"forged", "malformed"} \/ CallAfterExpiry)
              => call.result = None

C8_Witness ==
    /\ call.made /\ call.how = "forged" /\ created.module = "jwt_practice"
    /\ ~CallAfterExpiry
    /\ call.token.payload # created.token.payload
    /\ call.result = None

----------------------------------------------------------------------------
(* Properties of the token endpoints, checked under SpecApp *)

\* the current second is not past the expiry the token encodes
Unexpired(token) == now \div Resolution <= token.payload.exp

\* the decode function of the token's kind returns the token's payload
Verifies(e) ==
    (IF e.kind = "access" THEN decode_access_token(e.token, now)
     ELSE decode_refresh_token(e.token, now)) = Returns(e.token.payload)

\* the refresh tokens returned so far
RefreshTokens == {e \in issued : e.kind = "refresh"}

\* the latest call presented an issued, unexpired token to the endpoint of
\* its kind
PresentedIssued(endpoint, kind) ==
    /\ last.endpoint = endpoint
    /\ [kind |-> kind, token |-> last.token] \in issued
    /\ Unexpired(last.token)

\* C10: expiry is the only invalidation mechanism.  After any sequence of
\* register, login, refresh and protected-route calls, every token issued so
\* far that is unexpired still verifies, and it is accepted by the endpoint
\* of its kind.  A call of /refresh removes no issued token, returns no
\* refresh token and leaves the set of refresh tokens as it was, so the same
\* refresh token obtains access tokens again and again until it expires.
C10_ExpiryOnlyInvalidation ==
    /\ [](/\ \A e \in issued : Unexpired(e.token) => Verifies(e)
          /\ PresentedIssued("protected", "access")
                => last.response.status_code = 200
          /\ PresentedIssued("refresh", "refresh")
                => /\ last.response.status_code = 200
                   /\ DOMAIN last.response = {"status_code", "access_token"}
                   /\ [kind |-> "access", token |-> last.response.access_token]
                         \in issued)
    /\ [][/\ issued \subseteq issued'
          /\ last'.endpoint = "refresh" => RefreshTokens' = RefreshTokens]_vars

\* a refresh token that /refresh has accepted MaxUses times, the last time
\* after the access token issued with it had expired, and that still verifies
C10_Witness ==
    \E e \in RefreshTokens :
        /\ e.token \in DOMAIN refreshed
        /\ refreshed[e.token] = MaxUses
        /\ last.endpoint = "refresh"
        /\ last.token = e.token
        /\ last.response.status_code = 200
        /\ now \div Resolution > e.token.payload.exp - Days(REFRESH_TOKEN_EXPIRE_DAYS) \div Resolution
                                   + Minutes(ACCESS_TOKEN_EXPIRE_MINUTES) \div Resolution
        /\ Verifies(e)

\* the latest call was a login, and the first row of its username exists
\* and holds a hash that the password of the call verifies against
LoginVerified ==
    \E i \in 1..Len(users) :
        /\ users[i].username = last.username
        /\ \A j \in 1..i-1 : users[j].username # last.username
        /\ ~last.password.nul
        /\ users[i].password.digest = <<users[i].password.salt, last.password.head>>

\* C22: the endpoints are gated by the token functions.  /protected answers
\* 200 with the greeting for subject s only when decode_access_token
\* returned a payload whose sub is s, and 401 whenever it returned None.
\* /refresh answers 200 and issues an access token only when
\* decode_refresh_token returned a payload, the new token then carries the
\* sub of that payload, and when it returned None the answer is 401 and
\* nothing is issued.  /login answers 200 and issues tokens only when the
\* first row of the username exists and the password verifies against it,
\* and the tokens carry that username.  No other call issues a token.
C22_TokenGated ==
    /\ [](last.endpoint = "protected" =>
            LET payload == decode_access_token(last.token, now) IN
            /\ payload = None => last.response = Unauthorized
            /\ last.response.status_code = 200 =>
                  /\ payload.kind = "payload"
                  /\ payload.payload.sub = last.response.detail)
    /\ [](last.endpoint = "refresh" =>
            LET payload == decode_refresh_token(last.token, now) IN
            /\ payload = None =>
                  last.response = [status_code |-> 401,
                                   detail |-> "Invalid or expired refresh token"]
            /\ last.response.status_code = 200 =>
                  /\ payload.kind = "payload"
                  /\ last.response.access_token.payload.sub = payload.payload.sub)
    /\ [](last.endpoint = "login" =>
            /\ last.response.status_code = 200 <=> LoginVerified
            /\ last.response.status_code = 200 =>
                  /\ last.response.access_token.payload.sub = last.username
                  /\ last.response.refresh_token.payload.sub = last.username)
    /\ [][issued' # issued =>
            /\ last'.endpoint \in {"login", "refresh"}
            /\ last'.response.status_code = 200
            /\ issued' \ issued \subseteq
                  {[kind |-> "access", token |-> last'.response.access_token]}
                  \cup (IF last'.endpoint = "login"
                        THEN {[kind |-> "refresh", token |-> last'.response.refresh_token]}
                        ELSE {})]_vars

\* a forged copy of an issued token, presented to /refresh and answered 401
C22_Witness ==
    /\ last.endpoint = "refresh"
    /\ last.token \notin Held
    /\ last.token # Garbage
    /\ last.response.status_code = 401
    /\ issued # {}
    /\ \E tk \in Held : tk.payload.sub = last.token.payload.sub

\* the usernames of the users table
Registered == {users[i].username : i \in 1..Len(users)}

\* C23: every token issued by /login or /refresh carries a sub that is a
\* registered username: a login issues tokens for a username registered at
\* that time, a refresh issues a token with the sub of a token issued
\* before, and no user is ever removed.  So no token that verifies lacks
\* sub, and the payload["sub"] lookups of /refresh and /protected never
\* fail: neither endpoint answers 500.
C23_SubjectRegistered ==
    /\ [](/\ \A e \in issued :
                /\ "sub" \in DOMAIN e.token.payload
                /\ e.token.payload.sub \in Registered
          /\ \A tk \in Sendable :
                decode_access_token(tk, now) # None
                   => "sub" \in DOMAIN decode_access_token(tk, now).payload
          /\ last.endpoint \in {"refresh", "protected"}
                => last.response.status_code \in {200, 401})
    /\ [][/\ \A e \in issued' \ issued :
                IF last'.endpoint = "login"
                THEN e.token.payload.sub \in Registered
                ELSE \E f \in issued : f.token.payload.sub = e.token.payload.sub
          /\ Registered \subseteq Registered']_vars

\* an access token issued by /refresh more than an access lifetime after
\* the login its refresh token comes from, accepted by /protected with the
\* greeting for the registered user
C23_Witness ==
    /\ last.endpoint = "protected"
    /\ last.response.status_code = 200
    /\ last.response.detail \in Registered
    /\ [kind |-> "access", token |-> last.token] \in issued
    /\ \E e \in RefreshTokens :
          /\ e.token \in DOMAIN refreshed
          /\ e.token.payload.sub = last.token.payload.sub
          /\ last.token.payload.exp
                > e.token.payload.exp - Days(REFRESH_TOKEN_EXPIRE_DAYS) \div Resolution
                                      + Minutes(ACCESS_TOKEN_EXPIRE_MINUTES) \div Resolution

----------------------------------------------------------------------------
(* Properties of the password functions, checked under SpecPassword *)

\* a boolean result
Bool(b) == [kind |-> "bool", value |-> b]

\* verify_password of one of the auth_utils modules was called on the hash
\* of hashed.password
VerifiedBy(modules) == verified # NoCall /\ hashed.module \in modules
AuthUtils == {"auth_utils", "n8n_auth_utils"}

\* C12 as stated: in the auth_utils modules hash_password returns a hash
\* for every plaintext, and verify_password(p, hash_password(q)) is true
\* when p = q and false when p # q.
C12_RoundTripAllPlaintexts ==
    /\ (hashed # NoCall /\ hashed.module \in AuthUtils) => hashed.result.kind = "hash"
    /\ VerifiedBy(AuthUtils)
          => verified.result = Bool(verified.password = hashed.password)

\* C12: in the auth_utils modules hash_password returns a hash for every
\* plaintext without a NUL byte and raises for one with a NUL byte;
\* verify_password(p, hash_password(q)) raises when p holds a NUL byte, and
\* otherwise is true when p and q agree on their first 72 bytes and false
\* when they differ there.  So it is true for p = q, false for p # q that
\* differ within 72 bytes, and true for p # q that differ only after them.
C12_RoundTripFirst72Bytes ==
    /\ (hashed # NoCall /\ hashed.module \in AuthUtils)
          => (hashed.result.kind = "hash" <=> ~hashed.password.nul)
    /\ VerifiedBy(AuthUtils)
          => IF verified.password.nul
             THEN verified.result = Raises("PasswordValueError")
             ELSE verified.result = Bool(verified.password.head = hashed.password.head)

\* two different plaintexts that agree on their first 72 bytes verify
C12_Witness ==
    /\ VerifiedBy(AuthUtils)
    /\ verified.password # hashed.password
    /\ verified.password.head = hashed.password.head
    /\ verified.result = Bool(TRUE)

\* C13: in Practices/jwt_practice.py verify_password(password, digest)
\* returns a boolean, and the boolean is true when digest was produced by
\* hash_password(password).
C13_PracticeVerifies ==
    VerifiedBy({"jwt_practice"})
        => /\ verified.result.kind = "bool"
           /\ verified.password = hashed.password => verified.result = Bool(TRUE)

----------------------------------------------------------------------------
(* Properties of the login applications, checked under SpecLogin *)

\* C11: login does not leak which credential check failed.  In each login
\* application, a login for a username that does not exist and a login for
\* an existing username with a wrong password get the same status code and
\* the same body.
C11_LoginDoesNotLeak ==
    \A a, b \in answers : a.response = b.response

----------------------------------------------------------------------------
(* Properties of create_access_token, checked under SpecToken *)

\* the duration a create call asks for, in ticks: expires_delta when it is
\* supplied, 30 minutes when it is absent
Asked == IF created.expires_delta = <<>> THEN 30 * 60 * Resolution
         ELSE created.expires_delta[1]

\* C14 as stated: the exp of the token is the issuance time plus
\* expires_delta when expires_delta is supplied, and the issuance time plus
\* 30 minutes when it is absent, whatever exp the caller's claims hold.
C14_ExpIsIssuancePlusDelta ==
    created.issued => created.token.payload.exp * Resolution = created.at + Asked

\* C14: in both modules the exp of the token is the issuance time plus
\* expires_delta, in whole seconds with the fraction dropped, whenever
\* expires_delta is supplied (a zero or negative one included), and the
\* issuance time plus 30 minutes, in whole seconds, only when it is absent;
\* an exp in the caller's claims is overwritten by this value, and every
\* other claim is carried over.
C14_ExpFromDelta ==
    created.issued =>
        /\ created.token.payload.exp = (created.at + Asked) \div Resolution
        /\ DOMAIN created.token.payload = DOMAIN created.data \cup {"exp"}
        /\ \A k \in DOMAIN created.data \ {"exp"} :
              created.token.payload[k] = created.data[k]

\* a token created with a zero or negative expires_delta from claims that
\* already hold an exp, which the token does not carry
C14_Witness ==
    /\ created.issued
    /\ created.expires_delta \in {<<0>>, <<-1>>}
    /\ "exp" \in DOMAIN created.data
    /\ created.token.payload.exp # created.data.exp \div Resolution
    /\ created.token.payload.exp = (created.at + created.expires_delta[1]) \div Resolution

\* C15: create_access_token has no side effects.  After the call the
\* caller's claims mapping is what it was before (no exp added to it, an exp
\* in it not altered), and the call changes no other state: the clock, the
\* results of earlier calls and the state of every other component stay as
\* they were, and a token once returned is never changed afterwards.
C15_NoSideEffects ==
    /\ [](created.issued => created.caller_data = created.data)
    /\ [][/\ created' # created
             => UNCHANGED <<now, call, rl_vars, app_vars, auth_vars, sender_vars, reg_vars, store_vars>>
          /\ created.issued => created' = created]_vars

\* a call with claims that hold an exp, which the token overwrites and the
\* caller's mapping keeps; the token was decoded afterwards
C15_Witness ==
    /\ created.issued
    /\ created.module = "auth_utils"
    /\ "exp" \in DOMAIN created.data
    /\ created.caller_data.exp = created.data.exp
    /\ created.token.payload.exp # created.data.exp \div Resolution
    /\ call # NoCall

----------------------------------------------------------------------------
(* Properties of the retry client, checked under SpecSender *)

\* the attempts that ended in an exception
Failures == {i \in 1..Len(sender.trace) : sender.trace[i] # "ok"}

\* the script is over: the loop was left by break, or an exception left it
Terminated == sender.pc \in {"done", "raised"}

\* what the loop has done so far is what the retry policy allows
RetryPolicy ==
    /\ Len(sender.posts) <= 3
    /\ sender.posts = [i \in 1..Len(sender.posts) |-> i - 1]
    /\ \A i \in 1..Len(sender.trace) :
          sender.trace[i] = "ok" => i = Len(sender.trace) /\ sender.pc = "done"
    /\ \A i \in 1..Len(sender.slept) : sender.slept[i] = 15
    /\ sender.pc \in {"post"} => Len(sender.posts) = sender.attempt
    /\ sender.pc \in {"raise_for_status", "print", "except", "sleep"}
          => Len(sender.posts) = sender.attempt + 1
    /\ sender.pc \in {"post", "raise_for_status", "print"}
          => Len(sender.slept) = sender.attempt /\ Cardinality(Failures) = sender.attempt
    /\ sender.pc \in {"except", "sleep"}
          => /\ Len(sender.slept) = sender.attempt
             /\ Cardinality(Failures) = sender.attempt + 1
             /\ sender.exc \in RequestExceptions
    /\ sender.pc = "sleep" => sender.attempt < 2
    /\ sender.pc = "done"
          => /\ Len(sender.trace) = Len(sender.posts)
             /\ sender.trace[Len(sender.trace)] = "ok"
             /\ Len(sender.slept) = Len(sender.trace) - 1
    /\ sender.pc = "raised"
          => /\ Len(sender.posts) = 3
             /\ Cardinality(Failures) = 3
             /\ Len(sender.slept) = 2
             /\ sender.exc = sender.trace[3]
             /\ sender.exc \in RequestExceptions

\* C24: the client posts at most 3 times, one POST per attempt; it stops at
\* the first attempt that succeeds; it has slept 1.5 seconds after each of
\* the first two failed attempts before it posts again; a third consecutive
\* failure is re-raised with no third sleep; and the loop always terminates
C24_RetryLoop == []RetryPolicy /\ <>Terminated

\* three attempts failed, two sleeps were taken, the third failure was raised
C24_Witness ==
    /\ sender.pc = "raised"
    /\ Len(sender.posts) = 3
    /\ Len(sender.slept) = 2

----------------------------------------------------------------------------
(* Properties of the async registration application, checked under         *)
(* SpecRegister                                                            *)

\* the register requests for the username that were answered 200
Succeeded(username) ==
    {i \in 1..Len(registering) :
        registering[i].username = username /\ registering[i].response = UserRegistered}

\* C25: whatever the interleaving of register requests, at most one request
\* for a username succeeds, the table holds at most one row of a username,
\* and a register whose username is in the table when its last statement
\* reaches the database is answered 400 and has inserted nothing
C25_UniqueUsernames ==
    /\ \A username \in Usernames : Cardinality(Succeeded(username)) <= 1
    /\ \A username \in Usernames : Len(RowsOf(course_users.rows, username)) <= 1
    /\ \A i \in 1..Len(registering) :
          registering[i].existed
             => registering[i].response = AlreadyExists /\ ~registering[i].inserted

----------------------------------------------------------------------------
(* Properties of the patient store, checked under SpecStore *)

\* the calls made so far are all create_patient calls
OnlyCreates ==
    /\ \A i \in 1..Len(returned) : returned[i].op = "create_patient"
    /\ \A w \in Workers : workers[w] # FreeWorker => workers[w].op = "create_patient"

\* every handler has returned
AllReturned == \A w \in Workers : workers[w] = FreeWorker

\* the patient is in the store
Stored(id) == basic_view.kind = "json" /\ id \in DOMAIN basic_view.data

\* C26: after any interleaving of create_patient calls, two calls with
\* distinct ids that both returned 201 have both their patients in the
\* store, and a create for an id the store already holds returns 400
\* without writing the file
C26_CreatedPatientsStored ==
    /\ OnlyCreates /\ AllReturned
          => \A i, j \in 1..Len(returned) :
                /\ returned[i].id # returned[j].id
                /\ returned[i].status_code = 201
                /\ returned[j].status_code = 201
                => Stored(returned[i].id) /\ Stored(returned[j].id)
    /\ \A i \in 1..Len(returned) :
          returned[i].op = "create_patient" /\ returned[i].existing
             => returned[i].status_code = 400 /\ ~returned[i].wrote

====
